---- MODULE Spec2Model ----
(***************************************************************************)
(* A model of aimakerspace/text_utils.py: the fixed-stride                 *)
(* CharacterTextSplitter and the two document loaders (TextFileLoader,     *)
(* EnhancedTextFileLoader); of the two agent graphs (agent_langgraph.py,   *)
(* client_agent_langgraph.py) with the call_a2a_agent tool; and of the MCP *)
(* tool server's /call_tool route with its caller _call_mcp_server.        *)
(*                                                                         *)
(* Every behaviour follows one object from its construction: objects share *)
(* no state, so what holds of each holds of a program that makes several.  *)
(*                                                                         *)
(* A text is a sequence of characters, each character a string token; a    *)
(* path or URL is a sequence of tokens too, its literal parts (a URL shape, *)
(* an extension) one token each.  Python's None is the string "None".      *)
(***************************************************************************)
EXTENDS Integers, Sequences, FiniteSets, TLC

VARIABLES
    splitter,   \* the CharacterTextSplitter object, once constructed
    call,       \* the splitter operation most recently invoked, with arguments
    result,     \* the value that operation returned (a sequence of chunks)
    err,        \* the exception class that operation raised, or "None"
    loader,     \* the loader object, once constructed
    lcall,      \* the loader operation most recently invoked, with what the
                \* file system and the transcript service answered
    lerr,       \* the exception that operation raised, or NoError
    agent,      \* a thread of an agent graph: the graph's state (messages and
                \* the A2A identifiers), the node that runs next, and what the
                \* last step did
    server,     \* the request the /call_tool route handled last and its answer
    client,     \* the last call of _call_mcp_server and what it returned
    wire,       \* the request a caller of the repository sent to the MCP
                \* server, and what became of it
    a2a         \* the A2A client module: its three globals, the HTTP clients
                \* created and closed so far, and the coroutines started, each
                \* with the await it is suspended at

splitterVars == <<splitter, call, result, err>>
loaderVars == <<loader, lcall, lerr>>
agentVars == <<agent>>
mcpVars == <<server, client>>
wireVars == <<wire>>
a2aVars == <<a2a>>
vars == <<splitter, call, result, err, loader, lcall, lerr, agent, server, client,
          wire, a2a>>

\* What the operations of one component leave alone.
besideSplitter == <<loaderVars, agentVars, mcpVars, wireVars, a2aVars>>
besideLoader == <<splitterVars, agentVars, mcpVars, wireVars, a2aVars>>
besideAgent == <<splitterVars, loaderVars, mcpVars, wireVars, a2aVars>>
besideMcp == <<splitterVars, loaderVars, agentVars, wireVars, a2aVars>>
besideWire == <<splitterVars, loaderVars, agentVars, mcpVars, a2aVars>>
besideA2A == <<splitterVars, loaderVars, agentVars, mcpVars, wireVars>>

----------------------------------------------------------------------------
(* Bounds of the model.                                                    *)

MaxLen == 4        \* longest text handed to split
MaxSize == 4       \* largest chunk_size / chunk_overlap tried
MaxShort == 2      \* longest text inside a split_texts argument
MaxTexts == 2      \* most texts in one split_texts argument

Alphabet == {"a", "b"}

Min(x, y) == IF x <= y THEN x ELSE y
Max(x, y) == IF x >= y THEN x ELSE y

SeqsUpTo(S, n) == UNION {[1..k -> S] : k \in 0..n}

\* The text of the documented example, "abcdefghij".
ExampleText == <<"a", "b", "c", "d", "e", "f", "g", "h", "i", "j">>

Texts == SeqsUpTo(Alphabet, MaxLen) \cup {ExampleText}

\* The texts inside a split_texts argument: the beginnings "", "a", "ab", ...
\* of the example text.
ShortTexts == {SubSeq(ExampleText, 1, n) : n \in 0..MaxShort}
TextLists == SeqsUpTo(ShortTexts, MaxTexts)

\* Integers offered to the constructor: it takes any int, so negative and
\* zero values are offered as well.
Sizes == (0 - 2)..MaxSize

----------------------------------------------------------------------------
(* CharacterTextSplitter                                                   *)

NoSplitter == [constructed |-> FALSE, chunk_size |-> 0, chunk_overlap |-> 0]

NoCall == [op |-> "none", chunk_size |-> 0, chunk_overlap |-> 0, texts |-> <<>>]

\* Python's s[a:b] for integers a, b: a negative index counts from the end,
\* both ends are clipped to 0..len(s), and an empty range gives "".
SliceIndex(x, n) == IF x < 0 THEN Max(x + n, 0) ELSE Min(x, n)

\* A faulty slice: the end index is taken inclusive.
PySliceInclusive(s, a, b) == SubSeq(s, SliceIndex(a, Len(s)) + 1, SliceIndex(b + 1, Len(s)))

PySlice(s, a, b) == SubSeq(s, SliceIndex(a, Len(s)) + 1, SliceIndex(b, Len(s)))

\* The loop of split: for i in range(i, stop, step) with step > 0,
\* chunks.append(text[i : i + size]).
RECURSIVE SplitLoop(_, _, _, _, _)
SplitLoop(text, i, stop, size, step) ==
    IF i >= stop
    THEN <<>>
    ELSE <<PySlice(text, i, i + size)>> \o SplitLoop(text, i + step, stop, size, step)

\* A faulty assert: accepts chunk_overlap = chunk_size.
AcceptsConfigNonStrict(chunk_size, chunk_overlap) == chunk_size >= chunk_overlap

\* The assert of __init__: TRUE when construction is accepted.
AcceptsConfig(chunk_size, chunk_overlap) == chunk_size > chunk_overlap

\* A faulty stride: the overlap added instead of subtracted.
SplitStepWrongSign(chunk_size, chunk_overlap) == chunk_size + chunk_overlap

SplitStep(chunk_size, chunk_overlap) == chunk_size - chunk_overlap

\* A faulty split: range stops where the last full window starts, so the
\* short tail is lost.
SplitChunksNoTail(text, chunk_size, chunk_overlap) ==
    SplitLoop(text, 0, Len(text) - chunk_size + 1, chunk_size, chunk_size - chunk_overlap)

\* A faulty split: range runs one offset too far.
SplitChunksOffByOne(text, chunk_size, chunk_overlap) ==
    SplitLoop(text, 0, Len(text) + 1, chunk_size, chunk_size - chunk_overlap)

\* split(text) for a splitter with the given fields.  range() with a zero step
\* raises ValueError (the caller checks for that); a negative step gives the
\* empty range.
SplitChunks(text, chunk_size, chunk_overlap) ==
    IF SplitStep(chunk_size, chunk_overlap) < 0
    THEN <<>>
    ELSE SplitLoop(text, 0, Len(text), chunk_size, SplitStep(chunk_size, chunk_overlap))

\* The loop of split_texts: chunks.extend(self.split(text)) for each text.
RECURSIVE SplitTextsLoop(_, _, _, _)
SplitTextsLoop(texts, chunks, chunk_size, chunk_overlap) ==
    IF texts = <<>>
    THEN chunks
    ELSE SplitTextsLoop(Tail(texts),
                        chunks \o SplitChunks(Head(texts), chunk_size, chunk_overlap),
                        chunk_size, chunk_overlap)

RECURSIVE JoinTexts(_)
JoinTexts(texts) == IF texts = <<>> THEN <<>> ELSE Head(texts) \o JoinTexts(Tail(texts))

\* A faulty split_texts: the texts are joined before they are split.
SplitTextsJoined(texts, chunk_size, chunk_overlap) ==
    SplitChunks(JoinTexts(texts), chunk_size, chunk_overlap)

SplitTextsChunks(texts, chunk_size, chunk_overlap) ==
    SplitTextsLoop(texts, <<>>, chunk_size, chunk_overlap)

----------------------------------------------------------------------------
(* The loaders: what they read from the outside world.                     *)

MaxUrlTail == 1    \* most tokens following the shape of a video URL
MaxPages == 2      \* most pages in a PDF
MaxEntries == 2    \* most entries in a transcript
MaxFiles == 2      \* most files os.walk lists in a directory
MaxDocs == 1       \* a loader that holds this many documents is offered
                   \* only inputs that cannot be read

\* The four literals of _is_youtube_url / _extract_video_id, as token
\* sequences; "?" is a token of its own because the patterns exclude it.
WatchShape == <<"youtube.com/watch", "?", "v=">>
ShortShape == <<"youtu.be/">>
EmbedShape == <<"youtube.com/embed/">>
VShape == <<"youtube.com/v/">>

UrlTailTokens == {"x", "&", "?"}

UrlPaths ==
    {<<"https://">> \o shape \o tail :
        shape \in {WatchShape, ShortShape, EmbedShape, VShape},
        tail \in SeqsUpTo(UrlTailTokens, MaxUrlTail)}

FilePaths ==
    {<<"data/", "x", ext>> : ext \in {".txt", ".TXT", ".pdf", ".docx"}}
        \cup {<<"data/">>, <<"https://">> \o ShortShape \o <<"x", ".pdf">>}

Paths == UrlPaths \cup FilePaths

Encodings == {"utf-8"}

NoError == [cls |-> "None", msg |-> <<>>]

\* str(e) of an exception raised by the system or a library: one opaque
\* token per class.
StrOf(cls) == <<"str(" \o cls \o ")">>

\* What open() and read() of a text file can do: give the content, or raise.
FileContents == {<<"hello">>, <<"world">>}

ReadableFiles == {[error |-> "None", content |-> c] : c \in FileContents}

FailingFile(e) == [error |-> e, content |-> <<>>]

NoFile == FailingFile("None")

\* What os.path.getsize can do: give the size (one opaque value), or raise an
\* OSError (among them FileNotFoundError, when the file went away after it was
\* read).
GetsizeOutcomes ==
    {[error |-> "None", size |-> "st_size"]}
        \cup {[error |-> e, size |-> "None"] : e \in {"FileNotFoundError", "OSError"}}

NoGetsize == [error |-> "None", size |-> "None"]

\* Characters of a PDF page: "NUL" is \x00, "FFFD" is U+FFFD, "BEL" is \x07.
IsSpace(c) == c \in {" ", "\n", "\t"}
IsPrintable(c) == c \notin {"\n", "\t", "NUL", "BEL"}
IsAlnum(c) == c \in {"a", "1"}

RECURSIVE Rep(_, _)
Rep(c, n) == IF n <= 0 THEN <<>> ELSE <<c>> \o Rep(c, n - 1)

\* str.strip(): leading and trailing whitespace removed.
RECURSIVE LStrip(_)
LStrip(text) ==
    IF text # <<>> /\ IsSpace(Head(text)) THEN LStrip(Tail(text)) ELSE text

RECURSIVE RStrip(_)
RStrip(text) ==
    IF text # <<>> /\ IsSpace(text[Len(text)])
    THEN RStrip(SubSeq(text, 1, Len(text) - 1))
    ELSE text

Strip(text) == RStrip(LStrip(text))

\* str.replace(c, '') for each c of chars.
Remove(text, chars) == SelectSeq(text, LAMBDA c : c \notin chars)

\* _is_readable_text with min_readable_ratio = 0.7; the ratios are compared
\* as integers: p / n >= 0.7 is 10 p >= 7 n, b / n > 0.9 is 10 b > 9 n.
IsBase64Char(c) == IsAlnum(c) \/ c \in {"+", "/", "="}
IsPrintableOrSpace(c) == IsPrintable(c) \/ IsSpace(c)

\* A faulty check: the readable ratio must exceed 0.7.
IsReadableTextStrictRatio(text) ==
    IF text = <<>> \/ Len(text) < 10
    THEN FALSE
    ELSE IF /\ 10 * Len(SelectSeq(text, IsBase64Char)) > 9 * Len(text)
            /\ \A i \in 1..Min(100, Len(text)) : text[i] # " "
         THEN FALSE
         ELSE 10 * Len(SelectSeq(text, IsPrintableOrSpace)) > 7 * Len(text)

IsReadableText(text) ==
    IF text = <<>> \/ Len(text) < 10
    THEN FALSE
    ELSE IF /\ 10 * Len(SelectSeq(text, IsBase64Char)) > 9 * Len(text)
            /\ \A i \in 1..Min(100, Len(text)) : text[i] # " "
         THEN FALSE
         ELSE 10 * Len(SelectSeq(text, IsPrintableOrSpace)) >= 7 * Len(text)

\* What page.extract_text() can do: give a text, or raise.
ProseText == Rep("a", 4) \o <<" ">> \o Rep("a", 5)

PageTexts ==
    { Rep(" ", 3),                       \* whitespace only
      Rep("a", 12),                      \* an unbroken run, like base64
      ProseText }                        \* prose

PageOutcomes ==
    {[raises |-> FALSE, text |-> t] : t \in PageTexts}
        \cup {[raises |-> TRUE, text |-> <<>>]}

PageLists == SeqsUpTo(PageOutcomes, MaxPages)

\* A wider choice of page texts, for the page loop of _load_pdf on its own.
PdfPageTexts ==
    PageTexts \cup
    { <<>>,                                              \* nothing extracted
      Rep("a", 2) \o <<" ">> \o Rep("a", 2),              \* prose of 5 characters
      Rep("a", 9) \o <<"BEL">>,                           \* 90% alphanumeric, no space
      Rep("a", 3) \o <<" ">> \o Rep("a", 3) \o Rep("BEL", 3),   \* 70% printable
      Rep("a", 3) \o <<" ">> \o Rep("a", 2) \o Rep("BEL", 4),   \* 60% printable
      Rep("a", 5) \o <<" ">> \o Rep("a", 5) \o Rep("NUL", 5) }  \* prose and null bytes

PdfPageOutcomes ==
    {[raises |-> FALSE, text |-> t] : t \in PdfPageTexts}
        \cup {[raises |-> TRUE, text |-> <<>>]}

PdfPageLists == SeqsUpTo(PdfPageOutcomes, MaxPages)

\* What YouTubeTranscriptApi.get_transcript can do: give the entries (here
\* their 'text' fields), or raise.
EntryTexts == {<<"hello">>}

TranscriptOutcomes ==
    {[error |-> "None", entries |-> es] : es \in SeqsUpTo(EntryTexts, MaxEntries)}
        \cup {[error |-> "TranscriptsDisabled", entries |-> <<>>]}

NoTranscript == [error |-> "None", entries |-> <<>>]

\* What os.walk lists: files with a name and what open/read of each does.
WalkedFiles ==
    {[name |-> <<"f", ".txt">>, file |-> f] :
        f \in ReadableFiles \cup {FailingFile("UnicodeDecodeError")}}
        \cup {[name |-> <<"f", ".md">>, file |-> [error |-> "None", content |-> <<"hello">>]]}

WalkLists == SeqsUpTo(WalkedFiles, MaxFiles)

----------------------------------------------------------------------------
(* The loaders: their code.                                                *)

NoLoader ==
    [class |-> "None", path |-> <<>>, encoding |-> "None",
     documents |-> <<>>, metadata |-> <<>>]

NoLoaderCall ==
    [op |-> "none", branch |-> "none", kind |-> "none", file |-> NoFile,
     parse |-> "None", pages |-> <<>>, getsize |-> NoGetsize,
     transcript |-> NoTranscript, walk |-> <<>>, service_called |-> FALSE,
     events |-> <<>>]

\* The exceptions open() raises; the others a file can fail with come from
\* read(), when the file is already open.
OpenErrors == {"FileNotFoundError", "PermissionError"}

\* A faulty block: the file is closed only when the body ends normally.
WithOpenEventsNoCloseOnError(file) ==
    IF file.error \in OpenErrors THEN <<>>
    ELSE IF file.error # "None" THEN <<"open">>
    ELSE <<"open", "close">>

\* The file events of a block "with open(...) as f: body": nothing when open
\* raises; otherwise the file is opened, and closed when the block is left,
\* by its end, by a return or by an exception of the body.
WithOpenEvents(file) ==
    IF file.error \in OpenErrors THEN <<>> ELSE <<"open", "close">>

\* str.lower() on the tokens that have an upper-case form.
Lower(tok) ==
    CASE tok = ".PDF" -> ".pdf"
      [] tok = ".TXT" -> ".txt"
      [] OTHER -> tok

\* path.endswith(ext) and path.lower().endswith(ext)
EndsWith(path, ext) == path # <<>> /\ path[Len(path)] = ext
LowerEndsWith(path, ext) == path # <<>> /\ Lower(path[Len(path)]) = ext

\* The literal lit occurs in url at position i.
OccursAt(url, lit, i) ==
    i + Len(lit) - 1 <= Len(url) /\ SubSeq(url, i, i + Len(lit) - 1) = lit

\* re.search(lit, url) finds a match.
Search(url, lit) == \E i \in 1..Len(url) : OccursAt(url, lit, i)

\* _is_youtube_url
IsYoutubeUrl(url) ==
    \/ Search(url, WatchShape)
    \/ Search(url, ShortShape)
    \/ Search(url, EmbedShape)
    \/ Search(url, VShape)

\* re.search(lit + '([^c]+)', url): the positions where lit is followed by at
\* least one token other than stop; the leftmost one is the match, and the
\* group is the longest run of such tokens after it.
GroupStarts(url, lit, stop) ==
    {i + Len(lit) : i \in {j \in 1..Len(url) :
        /\ OccursAt(url, lit, j)
        /\ j + Len(lit) <= Len(url)
        /\ url[j + Len(lit)] # stop}}

SetMin(S) == CHOOSE x \in S : \A y \in S : x <= y

RECURSIVE RunFrom(_, _, _)
RunFrom(url, i, stop) ==
    IF i > Len(url) \/ url[i] = stop
    THEN <<>>
    ELSE <<url[i]>> \o RunFrom(url, i + 1, stop)

Group(url, lit, stop) == RunFrom(url, SetMin(GroupStarts(url, lit, stop)), stop)

\* _extract_video_id: the group of the first pattern that matches, as
\* [found |-> TRUE, id |-> group]; found is FALSE where the code raises.
ExtractVideoId(url) ==
    IF GroupStarts(url, WatchShape, "&") # {}
    THEN [found |-> TRUE, id |-> Group(url, WatchShape, "&")]
    ELSE IF GroupStarts(url, ShortShape, "?") # {}
    THEN [found |-> TRUE, id |-> Group(url, ShortShape, "?")]
    ELSE IF GroupStarts(url, EmbedShape, "?") # {}
    THEN [found |-> TRUE, id |-> Group(url, EmbedShape, "?")]
    ELSE IF GroupStarts(url, VShape, "?") # {}
    THEN [found |-> TRUE, id |-> Group(url, VShape, "?")]
    ELSE [found |-> FALSE, id |-> <<>>]

\* The exceptions the loaders raise themselves.
CouldNotExtractError(url) ==
    [cls |-> "ValueError", msg |-> <<"Could not extract video ID from URL: ">> \o url]

YoutubeFailedError(inner) ==
    [cls |-> "ValueError", msg |-> <<"Failed to load YouTube transcript: ">> \o inner]

PdfNotFoundError(path) ==
    [cls |-> "ValueError", msg |-> <<"PDF file not found: ">> \o path]

PdfFailedError(inner) ==
    [cls |-> "ValueError", msg |-> <<"Failed to load PDF: ">> \o inner]

NoReadableTextError ==
    [cls |-> "ValueError", msg |-> <<"No readable text could be extracted from the PDF">>]

TxtNotFoundError(path) ==
    [cls |-> "ValueError", msg |-> <<"Text file not found: ">> \o path]

TxtFailedError(inner) ==
    [cls |-> "ValueError", msg |-> <<"Failed to load text file: ">> \o inner]

UnsupportedTypeError(path) ==
    [cls |-> "ValueError", msg |-> <<"Unsupported file type: ">> \o path]

NeitherDirNorTxtError ==
    [cls |-> "ValueError",
     msg |-> <<"Provided path is neither a valid directory nor a .txt file.">>]

\* An exception of class cls raised by the system or a library.
Raised(cls) == [cls |-> cls, msg |-> StrOf(cls)]

\* " ".join(texts)
RECURSIVE JoinWithSpace(_)
JoinWithSpace(texts) ==
    IF texts = <<>> THEN <<>>
    ELSE IF Len(texts) = 1 THEN Head(texts)
    ELSE Head(texts) \o <<" ">> \o JoinWithSpace(Tail(texts))

\* The page marker f"\n--- Page {n} ---\n"
PageMarker(n) == <<"\n", "--- Page ", ToString(n), " ---", "\n">>

\* page_text and page_text.strip(), then the readability check on the text
\* with null bytes and replacement characters removed.
CleanedText(page_text) == Remove(page_text, {"NUL", "FFFD"})

PageRetained(page) ==
    /\ ~page.raises
    /\ page.text # <<>>
    /\ Strip(page.text) # <<>>
    /\ IsReadableText(CleanedText(page.text))

\* A faulty page loop: the marker counts the pages retained so far, not the
\* pages of the PDF.
RECURSIVE PdfTextRenumbered(_, _, _)
PdfTextRenumbered(pages, n, text) ==
    IF n > Len(pages)
    THEN text
    ELSE IF PageRetained(pages[n])
         THEN PdfTextRenumbered(pages, n + 1,
                  text \o PageMarker(Cardinality({k \in 1..n : PageRetained(pages[k])}))
                       \o CleanedText(pages[n].text) \o <<"\n">>)
         ELSE PdfTextRenumbered(pages, n + 1, text)

\* The page loop of _load_pdf from page n (1-based) on, text being what the
\* earlier pages gave.
RECURSIVE PdfText(_, _, _)
PdfText(pages, n, text) ==
    IF n > Len(pages)
    THEN text
    ELSE IF PageRetained(pages[n])
         THEN PdfText(pages, n + 1,
                      text \o PageMarker(n) \o CleanedText(pages[n].text) \o <<"\n">>)
         ELSE PdfText(pages, n + 1, text)

\* The loop of load_directory over the walked files, from documents docs:
\* [documents, error], error being the exception that ended the loop early.
RECURSIVE WalkLoad(_, _)
WalkLoad(files, docs) ==
    IF files = <<>>
    THEN [documents |-> docs, error |-> NoError]
    ELSE IF ~EndsWith(Head(files).name, ".txt")
    THEN WalkLoad(Tail(files), docs)
    ELSE IF Head(files).file.error # "None"
    THEN [documents |-> docs, error |-> Raised(Head(files).file.error)]
    ELSE WalkLoad(Tail(files), Append(docs, Head(files).file.content))

\* The file events of that loop: one with-block for each .txt file, up to
\* and including the one that raises.
RECURSIVE WalkEvents(_)
WalkEvents(files) ==
    IF files = <<>>
    THEN <<>>
    ELSE IF ~EndsWith(Head(files).name, ".txt")
    THEN WalkEvents(Tail(files))
    ELSE IF Head(files).file.error # "None"
    THEN WithOpenEvents(Head(files).file)
    ELSE WithOpenEvents(Head(files).file) \o WalkEvents(Tail(files))

----------------------------------------------------------------------------
(* The agent graphs.                                                       *)

MaxMessages == 6    \* most messages a thread is driven to hold
MaxToolCalls == 1   \* most tool calls in one model response

\* langgraph's END sentinel.
END == "__end__"

\* No graph has been invoked.
NoThread ==
    [graph |-> "None", node |-> "none", messages |-> <<>>,
     a2a_task_id |-> "None", a2a_context_id |-> "None",
     step |-> "none", sent |-> <<>>]

Last(seq) == seq[Len(seq)]

HumanMessage == [type |-> "human", tool_calls |-> <<>>, content |-> "query"]

AIMessage(tool_calls) == [type |-> "ai", tool_calls |-> tool_calls, content |-> "text"]

ToolMessage(content) == [type |-> "tool", tool_calls |-> <<>>, content |-> content]

\* The tool calls a model bound to the graph's tools can ask for.  The
\* arguments of call_a2a_agent are the model's choice: each identifier given
\* or left out (None).
BeltToolCalls == {[name |-> "mcp_fetch_goout_events", args |-> "None"]}

A2AToolCalls ==
    {[name |-> "call_a2a_agent", args |-> [task_id |-> t, context_id |-> c]] :
        t \in {"None", "t1"}, c \in {"None", "c1"}}

ToolCallsOf(graph) ==
    IF graph = "client_agent" THEN A2AToolCalls ELSE BeltToolCalls

\* What model.invoke can return: an AIMessage with some tool calls or none.
ResponsesOf(graph) ==
    {AIMessage(tcs) : tcs \in SeqsUpTo(ToolCallsOf(graph), MaxToolCalls)}

\* Python's truth value of an optional string.
Truthy(x) == x # "None" /\ x # ""

\* The 'message' of send_message_payload that call_a2a_agent builds.
SendMessagePayload(args) ==
    IF Truthy(args.task_id) /\ Truthy(args.context_id)
    THEN [role |-> "user", text |-> "query",
          task_id |-> args.task_id, context_id |-> args.context_id]
    ELSE [role |-> "user", text |-> "query"]

\* What a tool run by the ToolNode gives: the tool's return value, or the
\* error the ToolNode reports when the tool raises.  call_a2a_agent returns
\* the identifiers of the server's result.
ToolOutcomesOf(graph) ==
    IF graph = "client_agent"
    THEN {[error |-> FALSE, task_id |-> "t1", context_id |-> "c1"],
          [error |-> TRUE, task_id |-> "None", context_id |-> "None"]}
    ELSE {[error |-> FALSE, task_id |-> "None", context_id |-> "None"],
          [error |-> TRUE, task_id |-> "None", context_id |-> "None"]}

\* A faulty router: a message without tool calls goes to the tool node.
ShouldContinueInverted(last_message) ==
    IF last_message.tool_calls = <<>> THEN "action" ELSE END

\* should_continue of agent_langgraph.py
ShouldContinue(last_message) ==
    IF last_message.tool_calls # <<>> THEN "action" ELSE END

\* should_continue of build_client_agent
ClientShouldContinue(last_message) ==
    IF last_message.tool_calls # <<>> THEN "tools" ELSE END

\* The conditional edge out of the agent node, and the name of the tool node.
RouteOf(graph, last_message) ==
    IF graph = "client_agent"
    THEN ClientShouldContinue(last_message)
    ELSE ShouldContinue(last_message)

ToolNodeOf(graph) == IF graph = "client_agent" THEN "tools" ELSE "action"

\* graph.invoke / astream on a new thread: the input state, and control at
\* the entry point.
StartRun(graph) ==
    /\ agent = NoThread
    /\ agent' = [graph |-> graph, node |-> "agent", messages |-> <<HumanMessage>>,
                 a2a_task_id |-> "None", a2a_context_id |-> "None",
                 step |-> "start", sent |-> <<>>]
    /\ UNCHANGED besideAgent

\* The next turn on the same thread of the client agent, as
\* multi_turn_conversation_example builds it: a new human message, and the
\* identifiers read from the final state of the turn before.
FollowUpTurn ==
    /\ agent.graph = "client_agent"
    /\ agent.node = END
    /\ Len(agent.messages) + 2 <= MaxMessages
    /\ agent' = [agent EXCEPT !.node = "agent",
                              !.messages = Append(@, HumanMessage),
                              !.a2a_task_id = agent.a2a_task_id,
                              !.a2a_context_id = agent.a2a_context_id,
                              !.step = "start", !.sent = <<>>]
    /\ UNCHANGED besideAgent

\* The agent node (call_model, agent_node) followed by the conditional edge:
\* the model's response is appended to messages, nothing else of the state is
\* written, and should_continue picks the next node.
AgentStep(response) ==
    /\ agent.node = "agent"
    /\ Len(agent.messages) + 1 + Len(response.tool_calls) <= MaxMessages
    /\ agent' = [agent EXCEPT !.messages = Append(@, response),
                              !.node = RouteOf(agent.graph, response),
                              !.step = "agent", !.sent = <<>>]
    /\ UNCHANGED besideAgent

\* The agent node when model.invoke raises: the run is over, with the
\* exception.
AgentStepRaises ==
    /\ agent.node = "agent"
    /\ agent' = [agent EXCEPT !.node = "raised", !.step = "agent_raised",
                              !.sent = <<>>]
    /\ UNCHANGED besideAgent

\* The tool node followed by its edge back to the agent: each tool call of
\* the last message is run and answered by a ToolMessage.
ToolStep(outcomes) ==
    /\ agent.node = ToolNodeOf(agent.graph)
    /\ Len(outcomes) = Len(Last(agent.messages).tool_calls)
    /\ agent' =
          [agent EXCEPT
             !.messages = @ \o [i \in 1..Len(outcomes) |-> ToolMessage(outcomes[i])],
             !.node = "agent",
             !.step = "tool",
             !.sent = IF agent.graph = "client_agent"
                      THEN [i \in 1..Len(outcomes) |->
                              [args |-> Last(agent.messages).tool_calls[i].args,
                               message |->
                                  SendMessagePayload(Last(agent.messages).tool_calls[i].args)]]
                      ELSE <<>>]
    /\ UNCHANGED besideAgent

AgentNext ==
    \/ \E graph \in {"agent_langgraph", "client_agent"} : StartRun(graph)
    \/ FollowUpTurn
    \/ \E response \in ResponsesOf(agent.graph) : AgentStep(response)
    \/ AgentStepRaises
    \/ \E outcomes \in SeqsUpTo(ToolOutcomesOf(agent.graph), MaxToolCalls) :
          ToolStep(outcomes)

----------------------------------------------------------------------------
(* The MCP tool server and its caller.                                     *)

MaxEvents == 1      \* most events in an answer of the GO-OUT API

NoRequest == [handled |-> FALSE]

NoClientCall == [called |-> FALSE]

\* A JSON object is a record of all the keys the code looks at; the value
\* "Missing" stands for a key the object does not have, "null" for JSON null.
\* Every value is a string, the numbers too.

\* The keyword arguments of _fetch_goout_events_impl; unknown_key says that
\* the object has a key that is no parameter of the function.
NoArguments ==
    [kind |-> "object", category |-> "Missing", location |-> "Missing",
     start_date |-> "Missing", end_date |-> "Missing", days_ahead |-> "Missing",
     unknown_key |-> FALSE]

\* The values of "arguments" a request can carry: objects, and JSON values
\* that are no object.
ArgumentValues ==
    { NoArguments,
      [NoArguments EXCEPT !.category = "concerts"],
      [NoArguments EXCEPT !.category = "NotAString"],
      [NoArguments EXCEPT !.start_date = "2025-01-01"],
      [NoArguments EXCEPT !.start_date = "not-a-date"],
      [NoArguments EXCEPT !.end_date = "2025-01-31", !.days_ahead = "NotANumber"],
      [NoArguments EXCEPT !.days_ahead = "NotANumber"],
      [NoArguments EXCEPT !.location = "athens"],
      [NoArguments EXCEPT !.unknown_key = TRUE],
      [NoArguments EXCEPT !.kind = "null"],
      [NoArguments EXCEPT !.kind = "array"] }

\* The request has no "arguments" key.
MissingArguments == [NoArguments EXCEPT !.kind = "missing"]

\* A JSON value that the code treats as a text, or does not find, or finds
\* to be null.
Str(text) == [kind |-> "string", text |-> text]
Missing == [kind |-> "missing", text |-> <<>>]
Null == [kind |-> "null", text |-> <<>>]

\* The bodies a POST /call_tool can carry: text that is not JSON, a JSON
\* value that is no object, or an object with or without the two keys.
RequestBodies ==
    {[kind |-> k, tool_name |-> "Missing", arguments |-> MissingArguments] :
        k \in {"not-json", "array"}}
    \cup {[kind |-> "object", tool_name |-> t, arguments |-> a] :
            t \in {"fetch_goout_events", "fetch_events", "Missing"},
            a \in ArgumentValues \cup {MissingArguments}}

\* An event of the GO-OUT API as the function sees it: whether its
\* StartingDate parses and falls in the date range, and whether its address
\* contains the location asked for.
Events ==
    {[starting_date |-> d, address_matches |-> m] :
        d \in {"in-range", "out-of-range", "unparsable"}, m \in BOOLEAN}

\* What requests.post to the GO-OUT API can do: raise, or give a response;
\* response.json() of a 200 raises (json_error names the class, which
\* depends on the version of requests), or gives the data.
NoUpstream ==
    [error |-> "None", status_code |-> "None", json_error |-> "None",
     status |-> "Missing", events |-> <<>>]

UpstreamOutcomes ==
    { [NoUpstream EXCEPT !.error = "ConnectionError"],
      [NoUpstream EXCEPT !.status_code = "500"],
      [NoUpstream EXCEPT !.status_code = "200", !.json_error = "RequestsJSONDecodeError"],
      [NoUpstream EXCEPT !.status_code = "200", !.json_error = "ValueError"],
      [NoUpstream EXCEPT !.status_code = "200"],
      [NoUpstream EXCEPT !.status_code = "200", !.status = "false"] }
    \cup {[NoUpstream EXCEPT !.status_code = "200", !.status = "true", !.events = es] :
            es \in SeqsUpTo(Events, MaxEvents)}

\* The value of a keyword argument: what the request gives, or the default.
ArgOr(arguments, value, default) == IF value = "Missing" THEN default ELSE value

IsDate(value) == value \in {"2025-01-01", "2025-01-31"}
IsNumber(value) == value \in {"30", "7"}
IsString(value) == value \notin {"NotAString", "None"}

\* str.title() on the categories of the model.
Title(category) ==
    CASE category = "nightlife" -> "Nightlife"
      [] category = "concerts" -> "Concerts"
      [] OTHER -> category

\* The strings _fetch_goout_events_impl returns, by their fixed parts; "[x] "
\* stands for the cross mark and the space the code puts first.
NetworkErrorText(e) == <<"[x] Network error: ">> \o StrOf(e)
ErrorFetchingText(e) == <<"[x] Error fetching GO-OUT events: ">> \o StrOf(e)
ApiFailedText(status_code) == <<"[x] API request failed with status ", status_code>>
ApiErrorStatusText == <<"[x] API returned error status">>
NoEventsForText(category) == <<"No events found for ", category>>
NoEventsBetweenText(category) == <<"No events found in ", category, " between ">>
NoEventsInText(location) == <<"No events found in ", location>>
EventsText(category, n) ==
    <<"GO-OUT ", Title(category), " Events (", ToString(n), " events)">>

\* _fetch_goout_events_impl, for arguments that bind: the string it returns.
\* Every exception raised inside it is caught by one of its two except
\* clauses.
FetchGooutEventsImpl(arguments, upstream) ==
    LET category == ArgOr(arguments, arguments.category, "nightlife")
        location == ArgOr(arguments, arguments.location, "None")
        start_date == ArgOr(arguments, arguments.start_date, "None")
        end_date == ArgOr(arguments, arguments.end_date, "None")
        days_ahead == ArgOr(arguments, arguments.days_ahead, "30")
        in_dates == SelectSeq(upstream.events,
                              LAMBDA e : e.starting_date # "out-of-range")
        in_place == SelectSeq(in_dates, LAMBDA e : e.address_matches)
        listed == IF location # "None" THEN in_place ELSE in_dates
    IN  IF start_date # "None" /\ ~IsDate(start_date)
        THEN ErrorFetchingText("ValueError")
        ELSE IF end_date = "None" /\ ~IsNumber(days_ahead)
        THEN ErrorFetchingText("TypeError")
        ELSE IF end_date # "None" /\ ~IsDate(end_date)
        THEN ErrorFetchingText("ValueError")
        ELSE IF upstream.error # "None"
        THEN NetworkErrorText(upstream.error)
        ELSE IF upstream.status_code # "200"
        THEN ApiFailedText(upstream.status_code)
        ELSE IF upstream.json_error = "RequestsJSONDecodeError"
        THEN NetworkErrorText(upstream.json_error)
        ELSE IF upstream.json_error # "None"
        THEN ErrorFetchingText(upstream.json_error)
        ELSE IF upstream.status # "true"
        THEN ApiErrorStatusText
        ELSE IF upstream.events = <<>>
        THEN NoEventsForText(category)
        ELSE IF in_dates = <<>>
        THEN NoEventsBetweenText(category)
        ELSE IF location # "None" /\ ~IsString(location)
        THEN ErrorFetchingText("AttributeError")
        ELSE IF location # "None" /\ in_place = <<>>
        THEN NoEventsInText(location)
        ELSE IF ~IsString(category)
        THEN ErrorFetchingText("AttributeError")
        ELSE EventsText(category, Len(listed))

\* _fetch_goout_events_impl(**args) can be called: args is a mapping and each
\* of its keys is a parameter of the function.
Binds(arguments) == arguments.kind = "object" /\ ~arguments.unknown_key

\* The JSON bodies the route answers with (status 200).
SuccessBody(text) ==
    [kind |-> "object", success |-> "true", result |-> Str(text), error |-> Missing]

UnknownToolBody(tool_name) ==
    [kind |-> "object", success |-> "false", result |-> Missing,
     error |-> Str(<<"Unknown tool: ",
                     IF tool_name = "Missing" THEN "None" ELSE tool_name>>)]

\* A response without a JSON body.
NoBody == [kind |-> "not-json", success |-> "Missing", result |-> Missing, error |-> Missing]

\* An answer of the route: the JSONResponse it returns, or the exception that
\* leaves the handler (the framework then answers 500 without a JSON body).
Answered(body) == [escaped |-> "None", status_code |-> "200", body |-> body]
Escaped(e) == [escaped |-> e, status_code |-> "500", body |-> NoBody]

\* call_tool: the handler of POST /call_tool, for a request with this body,
\* upstream being what the GO-OUT API does if the handler gets to ask it.
CallToolAnswer(body, upstream) ==
    IF body.kind = "not-json"
    THEN Escaped("JSONDecodeError")
    ELSE IF body.kind # "object"
    THEN Escaped("AttributeError")
    ELSE IF body.tool_name = "fetch_goout_events"
    THEN LET args == IF body.arguments = MissingArguments
                     THEN NoArguments ELSE body.arguments
         IN  IF Binds(args)
             THEN Answered(SuccessBody(FetchGooutEventsImpl(args, upstream)))
             ELSE Escaped("TypeError")
    ELSE Answered(UnknownToolBody(body.tool_name))

\* The handler gets as far as requests.post.
AsksUpstream(body) ==
    /\ body.kind = "object"
    /\ body.tool_name = "fetch_goout_events"
    /\ LET args == IF body.arguments = MissingArguments
                   THEN NoArguments ELSE body.arguments
           start_date == ArgOr(args, args.start_date, "None")
           end_date == ArgOr(args, args.end_date, "None")
           days_ahead == ArgOr(args, args.days_ahead, "30")
       IN  /\ Binds(args)
           /\ start_date = "None" \/ IsDate(start_date)
           /\ IF end_date = "None" THEN IsNumber(days_ahead) ELSE IsDate(end_date)

CallTool(body, upstream) ==
    /\ ~server.handled
    /\ upstream = NoUpstream <=> ~AsksUpstream(body)
    /\ server' = [handled |-> TRUE, body |-> body, upstream |-> upstream,
                  answer |-> CallToolAnswer(body, upstream)]
    /\ UNCHANGED <<client, besideMcp>>

\* _call_mcp_server --------------------------------------------------------

MCP_SERVER_URL == "http://localhost:8002"

\* What requests.post to the MCP server can do: raise, or give a response
\* with a status and a body.
ResponseBodies ==
    {[NoBody EXCEPT !.kind = k] : k \in {"not-json", "array"}}
    \cup {[kind |-> "object", success |-> s, result |-> r, error |-> e] :
            s \in {"true", "1", "false", "Missing"},
            r \in {Str(<<"events">>), Missing, Null},
            e \in {Str(<<"Unknown tool: ", "x">>), Missing}}

HttpOutcomes ==
    {[error |-> e, status_code |-> "None", body |-> NoBody] :
        e \in {"ConnectionError", "Timeout", "TooManyRedirects"}}
    \cup {[error |-> "None", status_code |-> c, body |-> b] :
            c \in {"200", "500"}, b \in ResponseBodies}

\* The strings _call_mcp_server makes itself.
McpError(text) == Str(<<"[MCP Error] ">> \o text)

\* dict.get(key, default): the value of the key, null too; the default only
\* when the key is missing.
GetOr(value, default) == IF value.kind = "missing" THEN default ELSE value

\* Python's truth value of a JSON value kept as a string (a missing key
\* reads as None).
JsonTruthy(value) == value \in {"true", "1"}

\* A faulty client: the status code is not looked at.
CallMcpServerResultAnyStatus(tool_name, arguments, http) ==
    IF http.error = "ConnectionError"
    THEN McpError(<<"Cannot connect to MCP server at ", MCP_SERVER_URL,
                    ". Make sure it's running on port 8002.">>)
    ELSE IF http.error = "Timeout"
    THEN McpError(<<"Request to MCP server timed out">>)
    ELSE IF http.error # "None"
    THEN McpError(<<"Failed to call MCP server: ">> \o StrOf(http.error))
    ELSE IF http.body.kind = "not-json"
    THEN McpError(<<"Failed to call MCP server: ">> \o StrOf("JSONDecodeError"))
    ELSE IF http.body.kind # "object"
    THEN McpError(<<"Failed to call MCP server: ">> \o StrOf("AttributeError"))
    ELSE IF JsonTruthy(http.body.success)
    THEN GetOr(http.body.result, Str(<<"No result returned">>))
    ELSE McpError(GetOr(http.body.error, Str(<<"Unknown error">>)).text)

\* _call_mcp_server: the value it returns.  Whatever is raised inside it is
\* caught by one of its three except clauses.
CallMcpServerResult(tool_name, arguments, http) ==
    IF http.error = "ConnectionError"
    THEN McpError(<<"Cannot connect to MCP server at ", MCP_SERVER_URL,
                    ". Make sure it's running on port 8002.">>)
    ELSE IF http.error = "Timeout"
    THEN McpError(<<"Request to MCP server timed out">>)
    ELSE IF http.error # "None"
    THEN McpError(<<"Failed to call MCP server: ">> \o StrOf(http.error))
    ELSE IF http.status_code # "200"
    THEN McpError(<<"Server returned status ", http.status_code>>)
    ELSE IF http.body.kind = "not-json"
    THEN McpError(<<"Failed to call MCP server: ">> \o StrOf("JSONDecodeError"))
    ELSE IF http.body.kind # "object"
    THEN McpError(<<"Failed to call MCP server: ">> \o StrOf("AttributeError"))
    ELSE IF JsonTruthy(http.body.success)
    THEN GetOr(http.body.result, Str(<<"No result returned">>))
    ELSE McpError(GetOr(http.body.error, Str(<<"Unknown error">>)).text)

CallMcpServer(tool_name, arguments, http) ==
    /\ ~client.called
    /\ client' = [called |-> TRUE, tool_name |-> tool_name, arguments |-> arguments,
                  http |-> http, raised |-> "None",
                  returned |-> CallMcpServerResult(tool_name, arguments, http)]
    /\ UNCHANGED <<server, besideMcp>>

\* The calls the tool belt makes: mcp_fetch_goout_events always sends
\* category and days_ahead.
ToolArguments ==
    {[NoArguments EXCEPT !.category = "nightlife", !.days_ahead = "30"],
     [NoArguments EXCEPT !.category = "concerts", !.days_ahead = "30",
                         !.location = "athens"]}

McpNext ==
    \/ \E body \in RequestBodies, upstream \in UpstreamOutcomes \cup {NoUpstream} :
          CallTool(body, upstream)
    \/ \E arguments \in ToolArguments, http \in HttpOutcomes :
          CallMcpServer("fetch_goout_events", arguments, http)

\* The A2A client module ---------------------------------------------------

MaxTasks == 3       \* most coroutines started on the event loop

\* An httpx.AsyncClient is known by the order of its creation, 1, 2, ...;
\* NoHttpxClient is Python's None.
NoHttpxClient == 0

DEFAULT_BASE_URL == "http://localhost:10000"

BaseUrls == {DEFAULT_BASE_URL, "http://localhost:10001"}

\* An A2AClient: the HTTP client and the agent card it was made with, the
\* card known by the base_url it was resolved from.  NoA2AClient is None.
NoA2AClient == [httpx_client |-> NoHttpxClient, agent_card |-> "None"]

A2AClient(httpx_client, agent_card) ==
    [httpx_client |-> httpx_client, agent_card |-> agent_card]

\* The module after import: the three globals are None.
NoA2A ==
    [httpx_client |-> NoHttpxClient, a2a_client |-> NoA2AClient, agent_card |-> "None",
     created |-> 0, closed |-> {}, tasks |-> <<>>, step |-> "none"]

\* A coroutine: which function it runs, where it is (suspended at an await,
\* returned, or raised), its base_url argument, the HTTP client its resolver
\* holds, the A2AClient it got, and the server its message went to.
Task(kind, pc, base_url, httpx_client, a2a_client) ==
    [kind |-> kind, pc |-> pc, base_url |-> base_url, httpx_client |-> httpx_client,
     client |-> a2a_client, delivered_to |-> "None", raised |-> "None"]

CanStart == Len(a2a.tasks) < MaxTasks

\* initialize_a2a_client up to its first await: the cached client is
\* returned whatever base_url is; otherwise a new HTTP client is created and
\* stored in the global, and the coroutine waits for the agent card.  after
\* is where the caller goes on with the cached client.
InitializeEnter(kind, base_url, after) ==
    IF a2a.a2a_client # NoA2AClient
    THEN [a2a EXCEPT
            !.tasks = Append(@, Task(kind, after, base_url, NoHttpxClient,
                                     a2a.a2a_client)),
            !.step = "cached"]
    ELSE [a2a EXCEPT
            !.created = @ + 1,
            !.httpx_client = a2a.created + 1,
            !.tasks = Append(@, Task(kind, "get_agent_card", base_url,
                                     a2a.created + 1, NoA2AClient)),
            !.step = "created"]

\* await initialize_a2a_client(base_url), called on its own.
InitializeA2AClient(base_url) ==
    /\ CanStart
    /\ a2a' = InitializeEnter("initialize_a2a_client", base_url, "returned")
    /\ UNCHANGED besideA2A

\* call_a2a_agent up to its first await: the one inside
\* initialize_a2a_client, or client.send_message when the client is cached.
CallA2AAgent(base_url) ==
    /\ CanStart
    /\ a2a' = InitializeEnter("call_a2a_agent", base_url, "send_message")
    /\ UNCHANGED besideA2A

\* resolver.get_agent_card() comes back.  It raises when the fetch fails, and
\* it fails when the resolver's HTTP client has been closed.  Otherwise the
\* card is stored, and the A2AClient is made of the HTTP client the global
\* holds now and stored too.
GetAgentCardReturns(t, outcome) ==
    /\ t \in 1..Len(a2a.tasks)
    /\ a2a.tasks[t].pc = "get_agent_card"
    /\ a2a.tasks[t].httpx_client \in a2a.closed => outcome # "ok"
    /\ a2a' =
         IF outcome # "ok"
         THEN [a2a EXCEPT !.tasks[t].pc = "raised", !.tasks[t].raised = outcome,
                          !.step = "raised"]
         ELSE LET made == A2AClient(a2a.httpx_client, a2a.tasks[t].base_url)
              IN  [a2a EXCEPT
                     !.agent_card = a2a.tasks[t].base_url,
                     !.a2a_client = made,
                     !.tasks[t].client = made,
                     !.tasks[t].pc =
                         IF a2a.tasks[t].kind = "call_a2a_agent"
                         THEN "send_message" ELSE "returned",
                     !.step = "initialized"]
    /\ UNCHANGED besideA2A

\* client.send_message(request) comes back: the message went to the server of
\* the client's agent card, or the call raised (always when the client's HTTP
\* client is None or closed).
SendMessageReturns(t, outcome) ==
    /\ t \in 1..Len(a2a.tasks)
    /\ a2a.tasks[t].pc = "send_message"
    /\ LET c == a2a.tasks[t].client
       IN  /\ (c.httpx_client = NoHttpxClient \/ c.httpx_client \in a2a.closed)
                => outcome # "ok"
           /\ a2a' =
                IF outcome # "ok"
                THEN [a2a EXCEPT !.tasks[t].pc = "raised",
                                 !.tasks[t].raised = outcome, !.step = "raised"]
                ELSE [a2a EXCEPT !.tasks[t].pc = "returned",
                                 !.tasks[t].delivered_to = c.agent_card,
                                 !.step = "sent"]
    /\ UNCHANGED besideA2A

\* cleanup_a2a_client up to its await: with no HTTP client in the global it
\* returns at once; otherwise aclose() marks that client closed and the
\* coroutine waits for it.
CleanupA2AClient ==
    /\ CanStart
    /\ a2a' =
         IF a2a.httpx_client = NoHttpxClient
         THEN [a2a EXCEPT
                 !.tasks = Append(@, Task("cleanup_a2a_client", "returned", "None",
                                          NoHttpxClient, NoA2AClient)),
                 !.step = "cleanup_returned"]
         ELSE [a2a EXCEPT
                 !.closed = @ \cup {a2a.httpx_client},
                 !.tasks = Append(@, Task("cleanup_a2a_client", "aclose", "None",
                                          a2a.httpx_client, NoA2AClient)),
                 !.step = "closing"]
    /\ UNCHANGED besideA2A

\* aclose() comes back: the three globals are set to None.
AcloseReturns(t) ==
    /\ t \in 1..Len(a2a.tasks)
    /\ a2a.tasks[t].pc = "aclose"
    /\ a2a' = [a2a EXCEPT
                 !.httpx_client = NoHttpxClient,
                 !.a2a_client = NoA2AClient,
                 !.agent_card = "None",
                 !.tasks[t].pc = "returned",
                 !.step = "cleanup_returned"]
    /\ UNCHANGED besideA2A

A2ANext ==
    \/ \E base_url \in BaseUrls : InitializeA2AClient(base_url)
    \/ \E base_url \in BaseUrls : CallA2AAgent(base_url)
    \/ \E t \in 1..MaxTasks, outcome \in {"ok", "A2AClientHTTPError"} :
          GetAgentCardReturns(t, outcome)
    \/ \E t \in 1..MaxTasks, outcome \in {"ok", "A2AClientHTTPError"} :
          SendMessageReturns(t, outcome)
    \/ CleanupA2AClient
    \/ \E t \in 1..MaxTasks : AcloseReturns(t)

\* The callers of the repository on the wire ------------------------------

NoSend == [sent |-> FALSE]

\* mcp.run(transport="sse", host="localhost", port=8002): the port the
\* server listens on, and the route the module adds to the server.
ServedPort == "8002"
CustomRoutes == {"/call_tool"}

\* A POST as requests.post sends it.
PostRequest(port, route, body) == [port |-> port, route |-> route, body |-> body]

\* The request _call_mcp_server posts: MCP_SERVER_URL/call_tool, port 8002,
\* with the payload {"tool_name": ..., "arguments": ...}.
CallMcpServerRequest(tool_name, arguments) ==
    PostRequest("8002", "/call_tool",
                [kind |-> "object", tool_name |-> tool_name, arguments |-> arguments])

\* mcp_fetch_goout_events: the arguments it hands to _call_mcp_server.
\* category and days_ahead always go; the other three only when truthy.
McpFetchGooutEventsArguments(category, location, start_date, end_date, days_ahead) ==
    [NoArguments EXCEPT
        !.category = category,
        !.days_ahead = days_ahead,
        !.location = IF Truthy(location) THEN location ELSE "Missing",
        !.start_date = IF Truthy(start_date) THEN start_date ELSE "Missing",
        !.end_date = IF Truthy(end_date) THEN end_date ELSE "Missing"]

\* test_simple_mcp.py, test_mcp_server: POST http://localhost:8002/tools/call
\* with {"name": "fetch_goout_events", "arguments": {"category": "nightlife",
\* "days_ahead": 7}}; the body has no "tool_name" key.
TestSimpleMcpRequest ==
    PostRequest("8002", "/tools/call",
                [kind |-> "object", tool_name |-> "Missing",
                 arguments |-> [NoArguments EXCEPT !.category = "nightlife",
                                                   !.days_ahead = "7"]])

\* test_mcp_integration.py, test_mcp_server_connection: POST
\* http://localhost:8001/tools/call with {"name": "get_weather",
\* "arguments": {"city": "San Francisco"}}; "city" is no parameter of the
\* function.
TestMcpIntegrationRequest ==
    PostRequest("8001", "/tools/call",
                [kind |-> "object", tool_name |-> "Missing",
                 arguments |-> [NoArguments EXCEPT !.unknown_key = TRUE]])

\* What becomes of a request: the server process listens on ServedPort only,
\* and of the routes the callers use it serves the custom route only, with
\* call_tool.  On another port nothing listens (requests raises
\* ConnectionError and there is no status); on another route the answer is
\* 404 and does not come from the handler.
Deliver(request, upstream) ==
    IF request.port # ServedPort
    THEN [connected |-> FALSE, handler |-> "None",
          answer |-> [escaped |-> "None", status_code |-> "None", body |-> NoBody]]
    ELSE IF request.route \notin CustomRoutes
    THEN [connected |-> TRUE, handler |-> "None",
          answer |-> [escaped |-> "None", status_code |-> "404", body |-> NoBody]]
    ELSE [connected |-> TRUE, handler |-> "call_tool",
          answer |-> CallToolAnswer(request.body, upstream)]

\* One caller sends its request to the running server.
Send(caller, request, upstream) ==
    /\ ~wire.sent
    /\ upstream = NoUpstream <=>
          ~(Deliver(request, upstream).handler = "call_tool"
              /\ AsksUpstream(request.body))
    /\ wire' = [sent |-> TRUE, caller |-> caller, request |-> request,
                upstream |-> upstream, delivery |-> Deliver(request, upstream)]
    /\ UNCHANGED besideWire

WireNext ==
    \/ \E category \in {"nightlife", "concerts"},
          location \in {"None", "", "athens"},
          start_date \in {"None", "2025-01-01", "not-a-date"},
          end_date \in {"None", "2025-01-31"},
          days_ahead \in {"30", "7"},
          upstream \in UpstreamOutcomes \cup {NoUpstream} :
            Send("mcp_fetch_goout_events",
                 CallMcpServerRequest("fetch_goout_events",
                     McpFetchGooutEventsArguments(category, location, start_date,
                                                  end_date, days_ahead)),
                 upstream)
    \/ \E upstream \in UpstreamOutcomes \cup {NoUpstream} :
          Send("test_simple_mcp", TestSimpleMcpRequest, upstream)
    \/ \E upstream \in UpstreamOutcomes \cup {NoUpstream} :
          Send("test_mcp_integration", TestMcpIntegrationRequest, upstream)

----------------------------------------------------------------------------
(* The splitter's operations.                                              *)

\* The components a specification does not drive stay as they start.
LoaderIdle ==
    /\ loader = NoLoader
    /\ lcall = NoLoaderCall
    /\ lerr = NoError

SplitterIdle ==
    /\ splitter = NoSplitter
    /\ call = NoCall
    /\ result = <<>>
    /\ err = "None"

AgentIdle == agent = NoThread

McpIdle == server = NoRequest /\ client = NoClientCall

WireIdle == wire = NoSend

A2AIdle == a2a = NoA2A

SplitterInit ==
    /\ LoaderIdle
    /\ AgentIdle
    /\ McpIdle
    /\ WireIdle
    /\ A2AIdle
    /\ splitter = NoSplitter
    /\ call = NoCall
    /\ result = <<>>
    /\ err = "None"

\* CharacterTextSplitter(chunk_size, chunk_overlap): the assert either raises
\* AssertionError, and no object comes to exist, or the fields are stored.
Construct(chunk_size, chunk_overlap) ==
    /\ ~splitter.constructed
    /\ call' = [op |-> "init", chunk_size |-> chunk_size,
                chunk_overlap |-> chunk_overlap, texts |-> <<>>]
    /\ result' = <<>>
    /\ IF AcceptsConfig(chunk_size, chunk_overlap)
       THEN /\ splitter' = [constructed |-> TRUE, chunk_size |-> chunk_size,
                            chunk_overlap |-> chunk_overlap]
            /\ err' = "None"
       ELSE /\ splitter' = NoSplitter
            /\ err' = "AssertionError"
    /\ UNCHANGED besideSplitter

\* splitter.split(text)
Split(text) ==
    /\ splitter.constructed
    /\ call' = [op |-> "split", chunk_size |-> splitter.chunk_size,
                chunk_overlap |-> splitter.chunk_overlap, texts |-> <<text>>]
    /\ IF SplitStep(splitter.chunk_size, splitter.chunk_overlap) = 0
       THEN /\ result' = <<>>
            /\ err' = "ValueError"
       ELSE /\ result' = SplitChunks(text, splitter.chunk_size, splitter.chunk_overlap)
            /\ err' = "None"
    /\ UNCHANGED <<splitter, besideSplitter>>

\* splitter.split_texts(texts)
SplitTexts(texts) ==
    /\ splitter.constructed
    /\ call' = [op |-> "split_texts", chunk_size |-> splitter.chunk_size,
                chunk_overlap |-> splitter.chunk_overlap, texts |-> texts]
    /\ IF SplitStep(splitter.chunk_size, splitter.chunk_overlap) = 0 /\ texts # <<>>
       THEN /\ result' = <<>>
            /\ err' = "ValueError"
       ELSE /\ result' = SplitTextsChunks(texts, splitter.chunk_size, splitter.chunk_overlap)
            /\ err' = "None"
    /\ UNCHANGED <<splitter, besideSplitter>>

SplitterNext ==
    \/ \E chunk_size \in Sizes, chunk_overlap \in Sizes : Construct(chunk_size, chunk_overlap)
    \/ \E text \in Texts : Split(text)
    \/ \E texts \in TextLists : SplitTexts(texts)

SplitterSpec == SplitterInit /\ [][SplitterNext]_vars

----------------------------------------------------------------------------
(* The loaders' operations.                                                *)

LoaderInit ==
    /\ SplitterIdle
    /\ AgentIdle
    /\ McpIdle
    /\ WireIdle
    /\ A2AIdle
    /\ loader = NoLoader
    /\ lcall = NoLoaderCall
    /\ lerr = NoError

\* TextFileLoader(path, encoding)
ConstructTextFileLoader(path, encoding) ==
    /\ loader.class = "None"
    /\ loader' = [class |-> "TextFileLoader", path |-> path, encoding |-> encoding,
                  documents |-> <<>>, metadata |-> <<>>]
    /\ lcall' = [NoLoaderCall EXCEPT !.op = "init"]
    /\ lerr' = NoError
    /\ UNCHANGED besideLoader

\* EnhancedTextFileLoader(path_or_url, encoding)
ConstructEnhancedTextFileLoader(path_or_url, encoding) ==
    /\ loader.class = "None"
    /\ loader' = [class |-> "EnhancedTextFileLoader", path |-> path_or_url,
                  encoding |-> encoding, documents |-> <<>>, metadata |-> <<>>]
    /\ lcall' = [NoLoaderCall EXCEPT !.op = "init"]
    /\ lerr' = NoError
    /\ UNCHANGED besideLoader

\* TextFileLoader.load, os.path.isdir(path) true: load_directory over what
\* os.walk lists.  An exception of open or read leaves the loop at once.
LoadDirectory(walk) ==
    /\ loader.class = "TextFileLoader"
    /\ lcall' = [NoLoaderCall EXCEPT !.op = "load", !.branch = "directory",
                                     !.kind = "dir", !.walk = walk,
                                     !.events = WalkEvents(walk)]
    /\ loader' = [loader EXCEPT !.documents = WalkLoad(walk, loader.documents).documents]
    /\ lerr' = WalkLoad(walk, loader.documents).error
    /\ UNCHANGED besideLoader

\* TextFileLoader.load, path an existing file that ends in .txt: load_file.
LoadFile(file) ==
    /\ loader.class = "TextFileLoader"
    /\ EndsWith(loader.path, ".txt")
    /\ lcall' = [NoLoaderCall EXCEPT !.op = "load", !.branch = "txt",
                                     !.kind = "file", !.file = file,
                                     !.events = WithOpenEvents(file)]
    /\ IF file.error # "None"
       THEN /\ lerr' = Raised(file.error)
            /\ UNCHANGED loader
       ELSE /\ lerr' = NoError
            /\ loader' = [loader EXCEPT !.documents = Append(@, file.content)]
    /\ UNCHANGED besideLoader

\* TextFileLoader.load, path neither a directory nor an existing .txt file
\* (kind "missing": nothing is there).
LoadNeither(kind) ==
    /\ loader.class = "TextFileLoader"
    /\ kind = "file" => ~EndsWith(loader.path, ".txt")
    /\ lcall' = [NoLoaderCall EXCEPT !.op = "load", !.branch = "unsupported",
                                     !.kind = kind]
    /\ lerr' = NeitherDirNorTxtError
    /\ UNCHANGED <<loader, besideLoader>>

\* The loader holds fewer documents than the model lets it accumulate.
HasRoom == Len(loader.documents) < MaxDocs

TextFileLoaderLoad ==
    \/ HasRoom /\ \E walk \in WalkLists : LoadDirectory(walk)
    \/ HasRoom /\ \E file \in ReadableFiles : LoadFile(file)
    \/ \E e \in {"PermissionError", "UnicodeDecodeError"} : LoadFile(FailingFile(e))
    \/ \E kind \in {"file", "missing"} : LoadNeither(kind)

\* _load_youtube_transcript; transcript is what the service answers when it
\* is asked.
LoadYoutubeTranscript(transcript) ==
    /\ loader.class = "EnhancedTextFileLoader"
    /\ IsYoutubeUrl(loader.path)
    /\ LET video == ExtractVideoId(loader.path)
       IN  IF ~video.found
           THEN /\ transcript = NoTranscript
                /\ lcall' = [NoLoaderCall EXCEPT !.op = "load_documents",
                                                 !.branch = "youtube"]
                /\ lerr' = YoutubeFailedError(CouldNotExtractError(loader.path).msg)
                /\ UNCHANGED loader
           ELSE /\ lcall' = [NoLoaderCall EXCEPT !.op = "load_documents",
                                                 !.branch = "youtube",
                                                 !.transcript = transcript,
                                                 !.service_called = TRUE]
                /\ IF transcript.error # "None"
                   THEN /\ lerr' = YoutubeFailedError(StrOf(transcript.error))
                        /\ UNCHANGED loader
                   ELSE /\ lerr' = NoError
                        /\ loader' =
                             [loader EXCEPT
                                !.documents = Append(@, JoinWithSpace(transcript.entries)),
                                !.metadata = Append(@,
                                    [source |-> "youtube", video_id |-> video.id,
                                     url |-> loader.path,
                                     duration |-> Len(transcript.entries)])]
    /\ UNCHANGED besideLoader

\* _load_pdf; file is what open does, parse what PdfReader does, pages what
\* extract_text does page by page, getsize what os.path.getsize does.  Each
\* is given only as far as the code gets to consult it.
LoadPdf(file, parse, pages, getsize) ==
    /\ loader.class = "EnhancedTextFileLoader"
    /\ ~IsYoutubeUrl(loader.path)
    /\ LowerEndsWith(loader.path, ".pdf")
    /\ lcall' = [NoLoaderCall EXCEPT !.op = "load_documents", !.branch = "pdf",
                                     !.file = file, !.parse = parse,
                                     !.pages = pages, !.getsize = getsize,
                                     !.events = WithOpenEvents(file)]
    /\ IF file.error # "None"
       THEN /\ parse = "None" /\ pages = <<>> /\ getsize = NoGetsize
            /\ lerr' = IF file.error = "FileNotFoundError"
                       THEN PdfNotFoundError(loader.path)
                       ELSE PdfFailedError(StrOf(file.error))
            /\ UNCHANGED loader
       ELSE IF parse # "None"
       THEN /\ pages = <<>> /\ getsize = NoGetsize
            /\ lerr' = PdfFailedError(StrOf(parse))
            /\ UNCHANGED loader
       ELSE IF Strip(PdfText(pages, 1, <<>>)) = <<>>
       THEN /\ getsize = NoGetsize
            /\ lerr' = PdfFailedError(NoReadableTextError.msg)
            /\ UNCHANGED loader
       ELSE IF getsize.error # "None"
       THEN /\ lerr' = IF getsize.error = "FileNotFoundError"
                       THEN PdfNotFoundError(loader.path)
                       ELSE PdfFailedError(StrOf(getsize.error))
            /\ loader' = [loader EXCEPT !.documents = Append(@, PdfText(pages, 1, <<>>))]
       ELSE /\ getsize \in GetsizeOutcomes
            /\ lerr' = NoError
            /\ loader' =
                 [loader EXCEPT
                    !.documents = Append(@, PdfText(pages, 1, <<>>)),
                    !.metadata = Append(@,
                        [source |-> "pdf", file_path |-> loader.path,
                         num_pages |-> Len(pages), file_size |-> getsize.size])]
    /\ UNCHANGED besideLoader

\* _load_txt; file is what open and read do, getsize what os.path.getsize
\* does if the code gets to it.
LoadTxt(file, getsize) ==
    /\ loader.class = "EnhancedTextFileLoader"
    /\ ~IsYoutubeUrl(loader.path)
    /\ ~LowerEndsWith(loader.path, ".pdf")
    /\ LowerEndsWith(loader.path, ".txt")
    /\ lcall' = [NoLoaderCall EXCEPT !.op = "load_documents", !.branch = "txt",
                                     !.file = file, !.getsize = getsize,
                                     !.events = WithOpenEvents(file)]
    /\ IF file.error # "None"
       THEN /\ getsize = NoGetsize
            /\ lerr' = IF file.error = "FileNotFoundError"
                       THEN TxtNotFoundError(loader.path)
                       ELSE TxtFailedError(StrOf(file.error))
            /\ UNCHANGED loader
       ELSE IF getsize.error # "None"
       THEN /\ lerr' = IF getsize.error = "FileNotFoundError"
                       THEN TxtNotFoundError(loader.path)
                       ELSE TxtFailedError(StrOf(getsize.error))
            /\ loader' = [loader EXCEPT !.documents = Append(@, file.content)]
       ELSE /\ lerr' = NoError
            /\ loader' =
                 [loader EXCEPT
                    !.documents = Append(@, file.content),
                    !.metadata = Append(@,
                        [source |-> "txt", file_path |-> loader.path,
                         encoding |-> loader.encoding, file_size |-> getsize.size])]
    /\ UNCHANGED besideLoader

\* A faulty else branch: an input of unknown type is read as a text file.
LoadUnsupportedReadAsText ==
    /\ loader.class = "EnhancedTextFileLoader"
    /\ ~IsYoutubeUrl(loader.path)
    /\ ~LowerEndsWith(loader.path, ".pdf")
    /\ ~LowerEndsWith(loader.path, ".txt")
    /\ lcall' = [NoLoaderCall EXCEPT !.op = "load_documents", !.branch = "txt",
                                     !.events = <<"open", "close">>]
    /\ lerr' = NoError
    /\ loader' = [loader EXCEPT !.documents = Append(@, <<"hello">>)]
    /\ UNCHANGED besideLoader

\* load_documents, the else branch.
LoadUnsupported ==
    /\ loader.class = "EnhancedTextFileLoader"
    /\ ~IsYoutubeUrl(loader.path)
    /\ ~LowerEndsWith(loader.path, ".pdf")
    /\ ~LowerEndsWith(loader.path, ".txt")
    /\ lcall' = [NoLoaderCall EXCEPT !.op = "load_documents", !.branch = "unsupported"]
    /\ lerr' = UnsupportedTypeError(loader.path)
    /\ UNCHANGED <<loader, besideLoader>>

EnhancedLoadDocuments ==
    \/ HasRoom /\ \E transcript \in TranscriptOutcomes : LoadYoutubeTranscript(transcript)
    \/ \E transcript \in {t \in TranscriptOutcomes : t.error # "None"} \cup {NoTranscript} :
          /\ transcript = NoTranscript => ~ExtractVideoId(loader.path).found
          /\ LoadYoutubeTranscript(transcript)
    \/ \E e \in OpenErrors : LoadPdf(FailingFile(e), "None", <<>>, NoGetsize)
    \/ LoadPdf(NoFile, "PdfReadError", <<>>, NoGetsize)
    \/ HasRoom /\ \E pages \in PageLists, getsize \in GetsizeOutcomes \cup {NoGetsize} :
          LoadPdf(NoFile, "None", pages, getsize)
    \/ \E e \in OpenErrors \cup {"UnicodeDecodeError"} : LoadTxt(FailingFile(e), NoGetsize)
    \/ HasRoom /\ \E file \in ReadableFiles, getsize \in GetsizeOutcomes :
          LoadTxt(file, getsize)
    \/ LoadUnsupported

LoaderNext ==
    \/ \E path \in FilePaths, encoding \in Encodings :
          ConstructTextFileLoader(path, encoding)
    \/ \E path \in Paths, encoding \in Encodings :
          ConstructEnhancedTextFileLoader(path, encoding)
    \/ TextFileLoaderLoad
    \/ EnhancedLoadDocuments

LoaderSpec == LoaderInit /\ [][LoaderNext]_vars

----------------------------------------------------------------------------
(* _load_pdf on its own: one EnhancedTextFileLoader on a .pdf path that     *)
(* opens and parses, loaded while it holds no document, over the wider      *)
(* choice of pages.                                                         *)

PdfPath == <<"data/", "x", ".pdf">>

PdfInit ==
    /\ SplitterIdle
    /\ AgentIdle
    /\ McpIdle
    /\ WireIdle
    /\ A2AIdle
    /\ loader = [class |-> "EnhancedTextFileLoader", path |-> PdfPath,
                 encoding |-> "utf-8", documents |-> <<>>, metadata |-> <<>>]
    /\ lcall = [NoLoaderCall EXCEPT !.op = "init"]
    /\ lerr = NoError

PdfNext ==
    /\ loader.documents = <<>>
    /\ \E pages \in PdfPageLists,
          getsize \in {g \in GetsizeOutcomes : g.error = "None"} \cup {NoGetsize} :
            LoadPdf(NoFile, "None", pages, getsize)

PdfSpec == PdfInit /\ [][PdfNext]_vars

----------------------------------------------------------------------------
(* A thread of one of the agent graphs, from its first invocation.         *)

AgentInit ==
    /\ SplitterIdle
    /\ LoaderIdle
    /\ AgentIdle
    /\ McpIdle
    /\ WireIdle
    /\ A2AIdle

AgentSpec == AgentInit /\ [][AgentNext]_vars

----------------------------------------------------------------------------
(* The MCP tool server handling a request, and _call_mcp_server making a    *)
(* call.                                                                    *)

McpInit ==
    /\ SplitterIdle
    /\ LoaderIdle
    /\ AgentIdle
    /\ McpIdle
    /\ WireIdle
    /\ A2AIdle

McpSpec == McpInit /\ [][McpNext]_vars

----------------------------------------------------------------------------
(* The callers of the repository, each sending one tool call to the running *)
(* MCP server.                                                              *)

WireInit ==
    /\ SplitterIdle
    /\ LoaderIdle
    /\ AgentIdle
    /\ McpIdle
    /\ WireIdle
    /\ A2AIdle

WireSpec == WireInit /\ [][WireNext]_vars

----------------------------------------------------------------------------
(* The A2A client module from import: coroutines of initialize_a2a_client,  *)
(* call_a2a_agent and cleanup_a2a_client on one event loop.                 *)

A2AInit ==
    /\ SplitterIdle
    /\ LoaderIdle
    /\ AgentIdle
    /\ McpIdle
    /\ WireIdle
    /\ A2AIdle

A2ASpec == A2AInit /\ [][A2ANext]_vars

----------------------------------------------------------------------------
(* Properties of the splitter.                                             *)

\* A configuration the specification calls valid.
ValidConfig(chunk_size, chunk_overlap) ==
    chunk_size >= 1 /\ chunk_overlap >= 0 /\ chunk_overlap < chunk_size

Stride(chunk_size, chunk_overlap) == chunk_size - chunk_overlap

SplitReturned == call.op = "split" /\ err = "None"

SplitArg == call.texts[1]

\* C1: under a valid configuration split leaves no gaps: every character index
\* of the text lies inside the offset window of some returned chunk, the k-th
\* chunk (counting from 0) starting at offset k * stride, and the chunk holds
\* the text's character there.
C1_NoGaps ==
    (SplitReturned /\ ValidConfig(call.chunk_size, call.chunk_overlap)) =>
        \A i \in 1..Len(SplitArg) :
            \E k \in 1..Len(result) :
                LET off == (k - 1) * Stride(call.chunk_size, call.chunk_overlap)
                IN  /\ off < i
                    /\ i <= off + Len(result[k])
                    /\ result[k][i - off] = SplitArg[i]

C1_Witness ==
    /\ SplitReturned
    /\ ValidConfig(call.chunk_size, call.chunk_overlap)
    /\ call.chunk_overlap >= 1
    /\ Len(SplitArg) > call.chunk_size
    /\ Len(result) >= 3

\* The windows text[k*stride : min(k*stride + chunk_size, len(text))],
\* k = 0, 1, ... while k*stride < len(text), in closed form.
NumWindows(n, stride) == (n + stride - 1) \div stride

Windows(text, chunk_size, chunk_overlap) ==
    [k \in 1..NumWindows(Len(text), Stride(chunk_size, chunk_overlap)) |->
        SubSeq(text,
               (k - 1) * Stride(chunk_size, chunk_overlap) + 1,
               Min((k - 1) * Stride(chunk_size, chunk_overlap) + chunk_size, Len(text)))]

ExampleChunks ==
    << <<"a", "b", "c", "d">>, <<"d", "e", "f", "g">>, <<"g", "h", "i", "j">>, <<"j">> >>

\* C2: split returns exactly the windows of width chunk_size taken every
\* stride characters and clipped to the end of the text, in increasing
\* offset (stated for every splitter with chunk_size >= 1, which covers every
\* valid configuration); so split("") is empty and "abcdefghij" with
\* chunk_size 4 and chunk_overlap 1 gives abcd, defg, ghij, j.
C2_ExactWindows ==
    (SplitReturned /\ call.chunk_size >= 1) =>
        /\ result = Windows(SplitArg, call.chunk_size, call.chunk_overlap)
        /\ (SplitArg = <<>> => result = <<>>)
        /\ (SplitArg = ExampleText /\ call.chunk_size = 4 /\ call.chunk_overlap = 1
                => result = ExampleChunks)

C2_Witness ==
    /\ SplitReturned
    /\ SplitArg = ExampleText
    /\ call.chunk_size = 4
    /\ call.chunk_overlap = 1
    /\ Len(result) = 4

\* C3 as stated: under a valid configuration a text no longer than chunk_size
\* is returned as exactly one chunk, equal to the text.
C3_OneChunkUpToChunkSize ==
    (SplitReturned /\ ValidConfig(call.chunk_size, call.chunk_overlap)
        /\ Len(SplitArg) <= call.chunk_size)
        => result = <<SplitArg>>

\* C3 amended: under a valid configuration a non-empty text no longer than the
\* stride is returned as exactly one chunk, equal to the text; a non-empty text
\* no longer than chunk_size has the whole text as its first chunk; the empty
\* text gives no chunk.
C3_OneChunkUpToStride ==
    (SplitReturned /\ ValidConfig(call.chunk_size, call.chunk_overlap)) =>
        /\ (Len(SplitArg) >= 1
            /\ Len(SplitArg) <= Stride(call.chunk_size, call.chunk_overlap))
                => result = <<SplitArg>>
        /\ (Len(SplitArg) >= 1 /\ Len(SplitArg) <= call.chunk_size)
                => (Len(result) >= 1 /\ result[1] = SplitArg)
        /\ (Len(SplitArg) = 0 => result = <<>>)

C3_Witness ==
    /\ SplitReturned
    /\ ValidConfig(call.chunk_size, call.chunk_overlap)
    /\ call.chunk_overlap >= 1
    /\ Len(SplitArg) = Stride(call.chunk_size, call.chunk_overlap)
    /\ result = <<SplitArg>>

\* The class the constructor raises for a rejected configuration stands for
\* the specification's InvalidConfigurationError.
InvalidConfigurationError == "AssertionError"

\* C4: constructing with chunk_overlap >= chunk_size fails with the
\* configuration error at construction and leaves no object; every splitter
\* that exists has a positive stride, and split and split_texts run only with
\* a positive stride and never fail on it.
C4_RejectedAtConstruction ==
    /\ (call.op = "init" /\ call.chunk_overlap >= call.chunk_size)
            => (err = InvalidConfigurationError /\ ~splitter.constructed)
    /\ splitter.constructed
            => Stride(splitter.chunk_size, splitter.chunk_overlap) > 0
    /\ call.op \in {"split", "split_texts"}
            => (Stride(call.chunk_size, call.chunk_overlap) > 0 /\ err = "None")

C4_Witness ==
    /\ call.op = "init"
    /\ call.chunk_overlap = call.chunk_size
    /\ call.chunk_size >= 1
    /\ err = InvalidConfigurationError
    /\ ~splitter.constructed

\* C5: every constructed splitter has chunk_size positive and chunk_overlap
\* non-negative and strictly less than chunk_size.
C5_ConstructedIsValid ==
    splitter.constructed => ValidConfig(splitter.chunk_size, splitter.chunk_overlap)

RECURSIVE ChunksBefore(_, _)
ChunksBefore(parts, i) ==
    IF i <= 1 THEN 0 ELSE Len(parts[i - 1]) + ChunksBefore(parts, i - 1)

\* C6: split_texts(texts) is split(texts[0]) ++ split(texts[1]) ++ ...: the
\* k-th chunk of the i-th text sits at position (number of chunks of the
\* earlier texts) + k, unchanged, and there are no other chunks.
C6_SplitTextsConcatenates ==
    (call.op = "split_texts" /\ err = "None") =>
        LET parts == [i \in 1..Len(call.texts) |->
                        SplitChunks(call.texts[i], call.chunk_size, call.chunk_overlap)]
        IN  /\ Len(result) = ChunksBefore(parts, Len(call.texts) + 1)
            /\ \A i \in 1..Len(call.texts) :
                   \A k \in 1..Len(parts[i]) :
                       result[ChunksBefore(parts, i) + k] = parts[i][k]

C6_Witness ==
    /\ call.op = "split_texts"
    /\ err = "None"
    /\ Len(call.texts) = 2
    /\ Len(call.texts[1]) = 2
    /\ call.texts[1] # call.texts[2]
    /\ Len(call.texts[2]) >= 1
    /\ ValidConfig(call.chunk_size, call.chunk_overlap)
    /\ Stride(call.chunk_size, call.chunk_overlap) = 1
    /\ Len(result) >= 3

----------------------------------------------------------------------------
(* Properties of the loaders.                                              *)

\* The kind of an error is the exception class the caller can catch.
ErrorKind(e) == e.cls

LoadCalled == lcall.op \in {"load", "load_documents"}

LoadFailed == LoadCalled /\ lerr # NoError

\* C7: a load that fails leaves documents and metadata exactly as they were
\* before the call.
C7_FailedLoadChangesNothing ==
    [][(LoadCalled' /\ lerr' # NoError)
            => (/\ loader'.documents = loader.documents
                /\ loader'.metadata = loader.metadata)]_vars

\* The PDF was opened and parsed, it has pages, and every page was discarded.
PdfAllPagesDiscarded ==
    /\ lcall.op = "load_documents"
    /\ lcall.branch = "pdf"
    /\ lcall.file.error = "None"
    /\ lcall.parse = "None"
    /\ Len(lcall.pages) >= 1
    /\ \A n \in 1..Len(lcall.pages) : ~PageRetained(lcall.pages[n])

\* C8: loading a PDF all of whose pages are discarded fails with an error of
\* a kind of its own: not the kind of the missing-file failure and not the
\* kind of the parser failure.
C8_NoReadableTextIsDistinct ==
    PdfAllPagesDiscarded =>
        /\ LoadFailed
        /\ ErrorKind(lerr) # ErrorKind(PdfNotFoundError(loader.path))
        /\ ErrorKind(lerr) # ErrorKind(PdfFailedError(StrOf("PdfReadError")))

\* The input has one of the four video URL shapes, and no identifier follows.
NoVideoId ==
    /\ lcall.op = "load_documents"
    /\ lcall.branch = "youtube"
    /\ ~ExtractVideoId(loader.path).found

\* C9: a video URL without an identifier fails with an error of a kind other
\* than that of a transcript service failure, and the service is not called.
C9_InvalidReferenceIsDistinct ==
    NoVideoId =>
        /\ LoadFailed
        /\ ~lcall.service_called
        /\ ErrorKind(lerr) # ErrorKind(YoutubeFailedError(StrOf("TranscriptsDisabled")))

\* A path ending in .txt was loaded and nothing is there.
MissingTxtLoaded ==
    \/ /\ loader.class = "TextFileLoader"
       /\ lcall.op = "load"
       /\ lcall.kind = "missing"
       /\ EndsWith(loader.path, ".txt")
    \/ /\ loader.class = "EnhancedTextFileLoader"
       /\ lcall.op = "load_documents"
       /\ lcall.branch = "txt"
       /\ lcall.file.error = "FileNotFoundError"

\* The error each loader raises for an input of an unsupported type.
UnsupportedErrorOf(l) ==
    IF l.class = "TextFileLoader"
    THEN NeitherDirNorTxtError
    ELSE UnsupportedTypeError(l.path)

\* C10: for both loaders, loading a missing .txt path fails with an error of
\* a kind other than that raised for an unsupported input type.
C10_MissingTxtIsDistinct ==
    MissingTxtLoaded =>
        /\ LoadFailed
        /\ ErrorKind(lerr) # ErrorKind(UnsupportedErrorOf(loader))

\* The input is not a video URL, does not end in .pdf or .txt, and is not a
\* directory.
UnsupportedInput ==
    /\ LoadCalled
    /\ lcall.kind # "dir"
    /\ ~IsYoutubeUrl(loader.path)
    /\ ~LowerEndsWith(loader.path, ".pdf")
    /\ ~LowerEndsWith(loader.path, ".txt")

\* What the two loaders raise for the specification's UnsupportedTypeError: a
\* ValueError whose message begins with one of these.
UnsupportedTypeMessages ==
    {"Unsupported file type: ",
     "Provided path is neither a valid directory nor a .txt file."}

\* C11: loading an input that is not a video URL, does not end in .pdf or
\* .txt and is not a directory fails with the unsupported-type error, opens
\* no file and adds no document.
C11_UnsupportedFailsUntouched ==
    [][UnsupportedInput' =>
            (/\ lerr'.cls = "ValueError"
             /\ Head(lerr'.msg) \in UnsupportedTypeMessages
             /\ lcall'.events = <<>>
             /\ loader'.documents = loader.documents
             /\ loader'.metadata = loader.metadata)]_vars

C11_Witness ==
    /\ UnsupportedInput
    /\ loader.class = "EnhancedTextFileLoader"
    /\ loader.path = <<"data/", "x", ".docx">>
    /\ lerr = UnsupportedTypeError(loader.path)
    /\ Len(loader.documents) = 0

\* The .txt files among those a directory walk lists, in the walk's order.
TxtFilesOf(walk) == SelectSeq(walk, LAMBDA f : EndsWith(f.name, ".txt"))

PdfLoaded ==
    /\ lcall.op = "load_documents"
    /\ lcall.branch = "pdf"
    /\ lerr = NoError
    /\ loader.documents # <<>>

PdfDocument == loader.documents[Len(loader.documents)]

\* What page n gives to the document: the marker with the page's own number
\* and the page's text (as the loader keeps it, null bytes and replacement
\* characters removed), each on a line of its own; nothing if it is not
\* retained.
PageSegment(pages, n) ==
    IF PageRetained(pages[n])
    THEN <<"\n", "--- Page ", ToString(n), " ---", "\n">>
            \o CleanedText(pages[n].text) \o <<"\n">>
    ELSE <<>>

RECURSIVE SegmentOffset(_, _)
SegmentOffset(pages, n) ==
    IF n <= 1 THEN 0
    ELSE SegmentOffset(pages, n - 1) + Len(PageSegment(pages, n - 1))

\* C13: the text of a loaded PDF is, for each retained page in ascending page
\* order, the marker "--- Page N ---" with N the page's position in the PDF,
\* followed by the page's text; a page that is discarded or whose extraction
\* raises gives neither marker nor text, and the load goes on: it returns
\* whenever some page is retained.
C13_MarkersAndTextInPageOrder ==
    /\ PdfLoaded =>
          /\ Len(PdfDocument) = SegmentOffset(lcall.pages, Len(lcall.pages) + 1)
          /\ \A n \in 1..Len(lcall.pages) :
                SubSeq(PdfDocument,
                       SegmentOffset(lcall.pages, n) + 1,
                       SegmentOffset(lcall.pages, n + 1)) = PageSegment(lcall.pages, n)
    /\ (/\ lcall.op = "load_documents"
        /\ lcall.branch = "pdf"
        /\ \E n \in 1..Len(lcall.pages) : PageRetained(lcall.pages[n]))
            => PdfLoaded

C13_Witness ==
    /\ PdfLoaded
    /\ Len(lcall.pages) = 2
    /\ lcall.pages[1].raises
    /\ PageRetained(lcall.pages[2])
    /\ PdfDocument[2] = "--- Page "
    /\ PdfDocument[3] = "2"

\* A PDF load that opened and parsed the file: it returned, or it failed for
\* want of readable text.
PdfPagesRead ==
    /\ lcall.op = "load_documents"
    /\ lcall.branch = "pdf"
    /\ lcall.file.error = "None"
    /\ lcall.parse = "None"

\* Page n was retained, as the caller can see: the load returned and the
\* document has the marker of page n.
MarkerIn(doc, n) ==
    \E i \in 1..(Len(doc) - 1) : doc[i] = "--- Page " /\ doc[i + 1] = ToString(n)

PageInDocument(n) == PdfLoaded /\ MarkerIn(PdfDocument, n)

\* How many characters of text satisfy a condition, given as the set of the
\* positions that do.
PrintableCount(text) ==
    Cardinality({i \in 1..Len(text) : IsPrintable(text[i]) \/ IsSpace(text[i])})

Base64LikeCount(text) ==
    Cardinality({i \in 1..Len(text) : IsAlnum(text[i]) \/ text[i] \in {"+", "/", "="}})

NoEarlySpace(text) == \A i \in 1..Len(text) : i <= 100 => text[i] # " "

WhitespaceOnly(text) == \A i \in 1..Len(text) : IsSpace(text[i])

\* The claim's three conditions on a text.
ReadableAsClaimed(text) ==
    /\ text # <<>>
    /\ ~WhitespaceOnly(text)
    /\ 10 * PrintableCount(text) >= 7 * Len(text)
    /\ ~(10 * Base64LikeCount(text) > 9 * Len(text) /\ NoEarlySpace(text))

\* C14 as stated: a page whose text was extracted is retained if and only if
\* the text is non-empty, not whitespace-only, at least 70% printable or
\* whitespace, and not more than 90% alphanumeric or +/= without a space
\* among its first 100 characters; nothing else discards a page.
C14_RetainedIffReadable ==
    PdfPagesRead =>
        \A n \in 1..Len(lcall.pages) :
            ~lcall.pages[n].raises =>
                (PageInDocument(n) <=> ReadableAsClaimed(lcall.pages[n].text))

\* C14 amended: a page is retained if and only if its extraction does not
\* raise, the extracted text is non-empty and not whitespace-only, and the
\* text with null bytes and replacement characters removed has at least 10
\* characters and meets the two ratio conditions.
C14_RetainedIffLongAndReadable ==
    PdfPagesRead =>
        \A n \in 1..Len(lcall.pages) :
            PageInDocument(n) <=>
                LET raw == lcall.pages[n].text
                    kept == SelectSeq(raw, LAMBDA c : c # "NUL" /\ c # "FFFD")
                IN  /\ ~lcall.pages[n].raises
                    /\ raw # <<>>
                    /\ ~WhitespaceOnly(raw)
                    /\ Len(kept) >= 10
                    /\ 10 * PrintableCount(kept) >= 7 * Len(kept)
                    /\ ~(10 * Base64LikeCount(kept) > 9 * Len(kept) /\ NoEarlySpace(kept))

C14_Witness ==
    /\ PdfLoaded
    /\ Len(lcall.pages) = 2
    /\ lcall.pages[1] = [raises |-> FALSE, text |-> Rep("a", 2) \o <<" ">> \o Rep("a", 2)]
    /\ lcall.pages[2] =
          [raises |-> FALSE, text |-> Rep("a", 3) \o <<" ">> \o Rep("a", 3) \o Rep("BEL", 3)]
    /\ ~PageInDocument(1)
    /\ PageInDocument(2)

\* The number of files open after the first k file events of a call.
RECURSIVE OpenAfter(_, _)
OpenAfter(events, k) ==
    IF k <= 0 THEN 0
    ELSE OpenAfter(events, k - 1) + (IF events[k] = "open" THEN 1 ELSE 0 - 1)

\* C15: when a load has returned or raised, every file it opened has been
\* closed, and at no moment of the call, a directory load included, was more
\* than one file open.
C15_FilesClosedOnEveryExit ==
    LoadCalled =>
        /\ OpenAfter(lcall.events, Len(lcall.events)) = 0
        /\ \A k \in 0..Len(lcall.events) : OpenAfter(lcall.events, k) \in {0, 1}

C15_Witness ==
    /\ lcall.op = "load"
    /\ lcall.branch = "directory"
    /\ LoadFailed
    /\ lerr.cls = "UnicodeDecodeError"
    /\ Len(lcall.walk) = 2
    /\ lcall.events = <<"open", "close", "open", "close">>

----------------------------------------------------------------------------
(* Properties of the agent graphs.                                         *)

HasToolCalls(message) == message.tool_calls # <<>>

\* C16: in both graphs a run starts at the agent node; after an agent step
\* control is at the tool node if and only if the last message has a tool
\* call, and at END otherwise; after a tool step control is at the agent
\* node.  So a run reaches END only by an agent step whose message has no
\* tool call, the model is never called while the last message has tool
\* calls waiting, and the tool node runs only on such a message.
C16_AgentToolLoop ==
    [][/\ agent'.step = "start" => agent'.node = "agent"
       /\ agent'.step = "agent" =>
             /\ HasToolCalls(Last(agent'.messages))
                    <=> agent'.node = (IF agent'.graph = "client_agent"
                                       THEN "tools" ELSE "action")
             /\ ~HasToolCalls(Last(agent'.messages)) <=> agent'.node = END
       /\ agent'.step = "tool" =>
             /\ agent'.node = "agent"
             /\ HasToolCalls(Last(agent.messages))
             /\ Len(agent'.messages) =
                    Len(agent.messages) + Len(Last(agent.messages).tool_calls)
       /\ (agent.node # END /\ agent'.node = END) =>
             (agent'.step = "agent" /\ ~HasToolCalls(Last(agent'.messages)))
       /\ agent'.step \in {"agent", "agent_raised"} =>
             ~HasToolCalls(Last(agent.messages))]_vars

C16_Witness ==
    /\ agent.graph = "agent_langgraph"
    /\ agent.node = END
    /\ agent.step = "agent"
    /\ Len(agent.messages) = 4
    /\ HasToolCalls(agent.messages[2])
    /\ agent.messages[3].type = "tool"
    /\ ~HasToolCalls(agent.messages[4])

\* The tool messages in which call_a2a_agent returned identifiers.
ReturnedIdsAt ==
    {i \in 1..Len(agent.messages) :
        agent.messages[i].type = "tool" /\ ~agent.messages[i].content.error}

\* C17: once call_a2a_agent has returned a task_id and context_id on a
\* thread of the client agent, the final state of the turn holds them in
\* a2a_task_id and a2a_context_id, and so does the state the follow-up turn
\* starts from.
C17_IdsKeptAcrossTurns ==
    (/\ agent.graph = "client_agent"
     /\ agent.node = END \/ agent.step = "start"
     /\ ReturnedIdsAt # {}) =>
        LET last == CHOOSE i \in ReturnedIdsAt : \A j \in ReturnedIdsAt : j <= i
        IN  /\ agent.a2a_task_id = agent.messages[last].content.task_id
            /\ agent.a2a_context_id = agent.messages[last].content.context_id

\* C18: the message call_a2a_agent sends carries the task_id it was given
\* whenever one was given, the context_id it was given whenever one was
\* given, and neither when none was given.
C18_IdsForwarded ==
    \A i \in 1..Len(agent.sent) :
        LET args == agent.sent[i].args
            message == agent.sent[i].message
        IN  /\ args.task_id # "None" =>
                  ("task_id" \in DOMAIN message /\ message.task_id = args.task_id)
            /\ args.context_id # "None" =>
                  ("context_id" \in DOMAIN message
                      /\ message.context_id = args.context_id)
            /\ (args.task_id = "None" /\ args.context_id = "None") =>
                  ("task_id" \notin DOMAIN message /\ "context_id" \notin DOMAIN message)

----------------------------------------------------------------------------
(* Properties of the MCP tool server and its caller.                       *)

\* C19: for a request whose body is an object and whose arguments, if any,
\* are an object, the /call_tool handler lets no exception escape and answers
\* with a JSON body: success true and a result string when tool_name is
\* fetch_goout_events, success false and "Unknown tool: <name>" otherwise.
C19_CallToolAlwaysAnswersJson ==
    (/\ server.handled
     /\ server.body.kind = "object"
     /\ server.body.arguments.kind \in {"object", "missing"}) =>
        /\ server.answer.escaped = "None"
        /\ server.answer.body.kind = "object"
        /\ IF server.body.tool_name = "fetch_goout_events"
           THEN /\ server.answer.body.success = "true"
                /\ server.answer.body.result.kind = "string"
           ELSE /\ server.answer.body.success = "false"
                /\ server.answer.body.error.kind = "string"
                /\ Head(server.answer.body.error.text) = "Unknown tool: "

IsMcpError(value) ==
    value.kind = "string" /\ value.text # <<>> /\ Head(value.text) = "[MCP Error] "

\* C20 as stated: _call_mcp_server never raises; it returns the server's
\* result exactly when the status is 200 and the body has a true success and
\* a result, and a string beginning with "[MCP Error]" in every other case,
\* a missing result among them.
C20_ResultOrMcpError ==
    client.called =>
        /\ client.raised = "None"
        /\ IF /\ client.http.error = "None"
              /\ client.http.status_code = "200"
              /\ client.http.body.kind = "object"
              /\ client.http.body.success \in {"true", "1"}
              /\ client.http.body.result.kind # "missing"
           THEN client.returned = client.http.body.result
           ELSE IsMcpError(client.returned)

\* C20 amended: _call_mcp_server never raises; when the status is 200 and the
\* body is a JSON object whose success is true (or any value Python takes for
\* true) it returns the body's result, or the string "No result returned"
\* when the body has no result; in every other case it returns a string
\* beginning with "[MCP Error]".
C20_ResultDefaultOrMcpError ==
    client.called =>
        /\ client.raised = "None"
        /\ IF /\ client.http.error = "None"
              /\ client.http.status_code = "200"
              /\ client.http.body.kind = "object"
              /\ client.http.body.success \in {"true", "1"}
           THEN IF client.http.body.result.kind = "missing"
                THEN client.returned = Str(<<"No result returned">>)
                ELSE client.returned = client.http.body.result
           ELSE IsMcpError(client.returned)

C20_Witness ==
    /\ client.called
    /\ client.http.status_code = "200"
    /\ client.http.body.kind = "object"
    /\ client.http.body.success = "true"
    /\ client.http.body.result.kind = "missing"
    /\ client.returned = Str(<<"No result returned">>)

\* C21: every tool call a caller of the repository sends to the MCP server
\* reaches the server's port and a route it serves, carries the tool name
\* fetch_goout_events and arguments the implementation accepts, and is
\* answered with status 200.
ReachesImpl(request, delivery) ==
    /\ delivery.connected
    /\ delivery.handler = "call_tool"
    /\ request.body.kind = "object"
    /\ request.body.tool_name = "fetch_goout_events"
    /\ Binds(request.body.arguments)

C21_EveryCallerIsServed ==
    wire.sent =>
        /\ ReachesImpl(wire.request, wire.delivery)
        /\ wire.delivery.answer.status_code = "200"

----------------------------------------------------------------------------
(* Properties of the splitter: chunk lengths.                              *)

ChunkOffset(k) == (k - 1) * Stride(call.chunk_size, call.chunk_overlap)

\* C22: under a valid configuration no chunk split returns is empty or longer
\* than chunk_size, and every chunk other than the last has length exactly
\* chunk_size.
C22_OnlyLastChunkShorter ==
    (SplitReturned /\ ValidConfig(call.chunk_size, call.chunk_overlap)) =>
        \A k \in 1..Len(result) :
            /\ Len(result[k]) >= 1
            /\ Len(result[k]) <= call.chunk_size
            /\ k < Len(result) => Len(result[k]) = call.chunk_size

\* C22 amended: under a valid configuration no chunk is empty or longer than
\* chunk_size; a chunk has length exactly chunk_size when its window
\* [offset, offset + chunk_size) lies inside the text and is what is left of
\* the text from its offset otherwise, so every chunk that starts within
\* chunk_size of the end is shorter; with chunk_overlap = 0 only the last
\* chunk may be shorter.
C22_ShortOnlyPastTheEnd ==
    (SplitReturned /\ ValidConfig(call.chunk_size, call.chunk_overlap)) =>
        \A k \in 1..Len(result) :
            /\ Len(result[k]) >= 1
            /\ Len(result[k]) <= call.chunk_size
            /\ ChunkOffset(k) + call.chunk_size <= Len(SplitArg)
                    => Len(result[k]) = call.chunk_size
            /\ ChunkOffset(k) + call.chunk_size > Len(SplitArg)
                    => Len(result[k]) = Len(SplitArg) - ChunkOffset(k)
            /\ (call.chunk_overlap = 0 /\ k < Len(result))
                    => Len(result[k]) = call.chunk_size

\* split has returned several chunks under a valid configuration with
\* overlap, the last two both shorter than chunk_size and a full one before.
C22_Witness ==
    /\ SplitReturned
    /\ ValidConfig(call.chunk_size, call.chunk_overlap)
    /\ call.chunk_overlap >= 1
    /\ Len(result) >= 3
    /\ Len(result[1]) = call.chunk_size
    /\ Len(result[Len(result) - 1]) < call.chunk_size
    /\ Len(result[Len(result)]) < Len(result[Len(result) - 1])

----------------------------------------------------------------------------
(* Properties of the A2A client module.                                    *)

Settled(task) == task.pc \in {"returned", "raised"}

\* C23: when cleanup_a2a_client completes after the other coroutines have
\* finished, every HTTP client that was created has been closed and the
\* three globals are None.
C23_CleanupClosesEveryClient ==
    (a2a.step = "cleanup_returned"
        /\ \A t \in 1..Len(a2a.tasks) : Settled(a2a.tasks[t])) =>
        /\ \A h \in 1..a2a.created : h \in a2a.closed
        /\ a2a.httpx_client = NoHttpxClient
        /\ a2a.a2a_client = NoA2AClient
        /\ a2a.agent_card = "None"

\* C24: a message call_a2a_agent(query, base_url=U) delivers goes to the
\* server whose agent card was resolved from U.
C24_DeliveredToOwnBaseUrl ==
    \A t \in 1..Len(a2a.tasks) :
        (a2a.tasks[t].kind = "call_a2a_agent" /\ a2a.tasks[t].delivered_to # "None")
            => a2a.tasks[t].delivered_to = a2a.tasks[t].base_url

----------------------------------------------------------------------------
(* Properties of the loaders: documents and metadata side by side.         *)

\* The metadata record names the input the loader was built on.
Describes(m, path_or_url) ==
    IF "url" \in DOMAIN m THEN m.url = path_or_url ELSE m.file_path = path_or_url

\* C25: in every state of an EnhancedTextFileLoader, after load_documents
\* calls that succeeded or failed, documents and metadata have the same
\* length and metadata[i] describes documents[i].
C25_DocumentsAndMetadataAligned ==
    loader.class = "EnhancedTextFileLoader" =>
        /\ Len(loader.documents) = Len(loader.metadata)
        /\ \A i \in 1..Len(loader.metadata) : Describes(loader.metadata[i], loader.path)

====
